---- MODULE Spec2Model ----
(***************************************************************************)
(* Emotion analysis service: the keyword scorer, the text2emotion wrapper, *)
(* the dominant-emotion selector and the /analyze handler of main.py.      *)
(*                                                                         *)
(* Text is a sequence of one-character strings.  A Python dict is an       *)
(* ordered map: a sequence of <<key, value>> pairs in insertion order.     *)
(* A float is the rational <<numerator, denominator>> in lowest terms;     *)
(* <<0, 0>> stands for a value that is not a number (None).                *)
(***************************************************************************)
EXTENDS Integers, Sequences, FiniteSets, TLC

VARIABLES USE_TEXT2EMOTION, call, pc, raw, emotions, dominant, response, invoked

vars == <<USE_TEXT2EMOTION, call, pc, raw, emotions, dominant, response, invoked>>

(***************************************************************************)
(* Bounds of the explored inputs.                                          *)
(***************************************************************************)
\* fragments in a text given to a scorer directly
MaxFrags == 3
\* fragments in the text of a request
MaxRequestFrags == 2
\* fragments in a text analysed with every outcome of the library
MaxTeFrags == 1

\* the value of a one-element set: binds the result of one statement so that
\* the statements after it read a value
Only(S) == CHOOSE x \in S : TRUE

(***************************************************************************)
(* Characters.                                                             *)
(***************************************************************************)
LowerAlpha == <<"a", "b", "c", "d", "e", "f", "g", "h", "i", "j", "k", "l", "m",
                "n", "o", "p", "q", "r", "s", "t", "u", "v", "w", "x", "y", "z">>
UpperAlpha == <<"A", "B", "C", "D", "E", "F", "G", "H", "I", "J", "K", "L", "M",
                "N", "O", "P", "Q", "R", "S", "T", "U", "V", "W", "X", "Y", "Z">>
Digits == {"0", "1", "2", "3", "4", "5", "6", "7", "8", "9"}
Range(s) == {s[i] : i \in DOMAIN s}
LowerSet == Range(LowerAlpha)
UpperSet == Range(UpperAlpha)

\* str.isspace for the characters of the model
Whitespace == {" ", "\t", "\n", "\r", "\f"}

\* the class \w of the re module
IsWordChar(c) == c \in LowerSet \cup UpperSet \cup Digits \cup {"_"}

\* str.lower, one character
LowerChar(c) ==
  IF c \in UpperSet THEN LowerAlpha[CHOOSE i \in 1..26 : UpperAlpha[i] = c] ELSE c

\* str.lower
lower(s) == [i \in 1..Len(s) |-> LowerChar(s[i])]

\* str.strip: drop leading and trailing whitespace
lstrip(s) ==
  LET keep == {i \in 1..Len(s) : s[i] \notin Whitespace}
  IN  IF keep = {} THEN <<>>
      ELSE SubSeq(s, CHOOSE i \in keep : \A j \in keep : i <= j, Len(s))
rstrip(s) ==
  LET keep == {i \in 1..Len(s) : s[i] \notin Whitespace}
  IN  IF keep = {} THEN <<>>
      ELSE SubSeq(s, 1, CHOOSE i \in keep : \A j \in keep : i >= j)
strip(s) == rstrip(lstrip(s))

\* len(text.split()): the number of maximal runs of non-whitespace characters
total_words(s) ==
  Cardinality({i \in 1..Len(s) :
                 /\ s[i] \notin Whitespace
                 /\ (i = 1 \/ s[i - 1] \in Whitespace)})

(***************************************************************************)
(* Floats as rationals.                                                    *)
(***************************************************************************)
RECURSIVE GCD(_, _)
GCD(a, b) == IF b = 0 THEN a ELSE GCD(b, a % b)

\* the float n / d
Ratio(n, d) == LET g == GCD(n, d) IN <<n \div g, d \div g>>

Zero == <<0, 1>>
One == <<1, 1>>
NoneValue == <<0, 0>>
IsNumber(v) == v[2] # 0
Less(a, b) == a[1] * b[2] < b[1] * a[2]

LessEq(a, b) == ~Less(b, a)

\* variant: a baseline under the calm threshold
Baseline_low == Ratio(1, 20)

\* the literal 0.1 of the baseline (line 80)
Baseline == Ratio(1, 10)
\* the literal 0.1 of the calm threshold (line 120)
CalmThreshold == Ratio(1, 10)

(***************************************************************************)
(* Ordered maps (dict).                                                    *)
(***************************************************************************)
Keys(m) == [i \in 1..Len(m) |-> m[i][1]]
Values(m) == [i \in 1..Len(m) |-> m[i][2]]
KeySet(m) == {m[i][1] : i \in 1..Len(m)}
HasKey(m, k) == k \in KeySet(m)
Get(m, k) == m[CHOOSE i \in 1..Len(m) : m[i][1] = k][2]
\* m[k] = v: replaces in place, appends a new key
Put(m, k, v) ==
  IF HasKey(m, k)
  THEN [i \in 1..Len(m) |-> IF m[i][1] = k THEN <<k, v>> ELSE m[i]]
  ELSE Append(m, <<k, v>>)

(***************************************************************************)
(* The lexicon, in declaration order.                                      *)
(***************************************************************************)
emotion_keywords ==
  <<
    <<"happy", <<
       <<"h", "a", "p", "p", "y">>,
       <<"j", "o", "y">>,
       <<"e", "x", "c", "i", "t", "e", "d">>,
       <<"g", "r", "e", "a", "t">>,
       <<"a", "m", "a", "z", "i", "n", "g">>,
       <<"w", "o", "n", "d", "e", "r", "f", "u", "l">>,
       <<"f", "a", "n", "t", "a", "s", "t", "i", "c">>,
       <<"a", "w", "e", "s", "o", "m", "e">>,
       <<"g", "o", "o", "d">>,
       <<"l", "o", "v", "e">>,
       <<"s", "m", "i", "l", "e">>,
       <<"l", "a", "u", "g", "h">>,
       <<"c", "h", "e", "e", "r", "f", "u", "l">>,
       <<"d", "e", "l", "i", "g", "h", "t", "e", "d">>
    >> >>,
    <<"sad", <<
       <<"s", "a", "d">>,
       <<"d", "e", "p", "r", "e", "s", "s", "e", "d">>,
       <<"u", "n", "h", "a", "p", "p", "y">>,
       <<"m", "i", "s", "e", "r", "a", "b", "l", "e">>,
       <<"u", "p", "s", "e", "t">>,
       <<"d", "o", "w", "n">>,
       <<"b", "l", "u", "e">>,
       <<"g", "r", "i", "e", "f">>,
       <<"s", "o", "r", "r", "o", "w">>,
       <<"c", "r", "y">>,
       <<"t", "e", "a", "r", "s">>,
       <<"l", "o", "n", "e", "l", "y">>,
       <<"h", "e", "a", "r", "t", "b", "r", "o", "k", "e", "n">>
    >> >>,
    <<"angry", <<
       <<"a", "n", "g", "r", "y">>,
       <<"m", "a", "d">>,
       <<"f", "u", "r", "i", "o", "u", "s">>,
       <<"r", "a", "g", "e">>,
       <<"h", "a", "t", "e">>,
       <<"a", "n", "n", "o", "y", "e", "d">>,
       <<"f", "r", "u", "s", "t", "r", "a", "t", "e", "d">>,
       <<"i", "r", "r", "i", "t", "a", "t", "e", "d">>,
       <<"p", "i", "s", "s", "e", "d">>,
       <<"o", "u", "t", "r", "a", "g", "e", "d">>,
       <<"l", "i", "v", "i", "d">>,
       <<"e", "n", "r", "a", "g", "e", "d">>
    >> >>,
    <<"fear", <<
       <<"a", "f", "r", "a", "i", "d">>,
       <<"s", "c", "a", "r", "e", "d">>,
       <<"f", "e", "a", "r">>,
       <<"t", "e", "r", "r", "i", "f", "i", "e", "d">>,
       <<"w", "o", "r", "r", "i", "e", "d">>,
       <<"a", "n", "x", "i", "o", "u", "s">>,
       <<"p", "a", "n", "i", "c">>,
       <<"n", "e", "r", "v", "o", "u", "s">>,
       <<"f", "r", "i", "g", "h", "t", "e", "n", "e", "d">>,
       <<"a", "l", "a", "r", "m", "e", "d">>,
       <<"c", "o", "n", "c", "e", "r", "n", "e", "d">>
    >> >>,
    <<"surprise", <<
       <<"s", "u", "r", "p", "r", "i", "s", "e", "d">>,
       <<"s", "h", "o", "c", "k", "e", "d">>,
       <<"a", "m", "a", "z", "e", "d">>,
       <<"a", "s", "t", "o", "n", "i", "s", "h", "e", "d">>,
       <<"s", "t", "u", "n", "n", "e", "d">>,
       <<"b", "e", "w", "i", "l", "d", "e", "r", "e", "d">>,
       <<"c", "o", "n", "f", "u", "s", "e", "d">>,
       <<"w", "o", "w">>,
       <<"u", "n", "b", "e", "l", "i", "e", "v", "a", "b", "l", "e">>
    >> >>
  >>

\* emotion_keywords.keys()
emotion_order == Keys(emotion_keywords)

(***************************************************************************)
(* re.findall(r'\b' + re.escape(keyword) + r'\b', text_lower)              *)
(***************************************************************************)
IsWordAt(s, i) == i \in 1..Len(s) /\ IsWordChar(s[i])

\* variant: the pattern without the \b anchors, a plain substring search
WordBoundary_none(s, p) == TRUE

\* \b between s[p] and s[p+1]; a string edge counts as a non-word character
WordBoundary(s, p) == IsWordAt(s, p) # IsWordAt(s, p + 1)

\* the pattern matches s starting at index i
MatchAt(keyword, s, i) ==
  /\ i + Len(keyword) - 1 <= Len(s)
  /\ s[i] = keyword[1]
  /\ WordBoundary(s, i - 1)
  /\ \A j \in 1..Len(keyword) : s[i + j - 1] = keyword[j]
  /\ WordBoundary(s, i + Len(keyword) - 1)

\* len(re.findall(...)): leftmost, non-overlapping matches from index pos on
RECURSIVE findall_count(_, _, _)
findall_count(keyword, s, pos) ==
  LET starts == {i \in pos..(Len(s) - Len(keyword) + 1) : MatchAt(keyword, s, i)}
  IN  IF starts = {} THEN 0
      ELSE LET first == CHOOSE i \in starts : \A j \in starts : i <= j
           IN  1 + findall_count(keyword, s, first + Len(keyword))

\* the inner loop: scores[emotion] += count for the keywords i..end
RECURSIVE sum_counts(_, _, _)
sum_counts(keywords, s, i) ==
  IF i > Len(keywords) THEN 0
  ELSE findall_count(keywords[i], s, 1) + sum_counts(keywords, s, i + 1)

\* scores = {emotion: 0.0 for emotion in emotion_keywords.keys()}
initial_scores == [i \in 1..Len(emotion_keywords) |-> <<emotion_keywords[i][1], Zero>>]

\* the outer loop: the raw score of every category
count_keywords(text_lower) ==
  [i \in 1..Len(emotion_keywords) |->
     <<emotion_keywords[i][1], Ratio(sum_counts(emotion_keywords[i][2], text_lower, 1), 1)>>]

\* max(values): the first greatest value
RECURSIVE max_from(_, _, _)
max_from(vs, i, best) ==
  IF i > Len(vs) THEN best
  ELSE max_from(vs, i + 1, IF Less(best, vs[i]) THEN vs[i] ELSE best)
max_value(m) == max_from(Values(m), 2, m[1][2])

\* any(scores.values())
any_value(m) == \E i \in 1..Len(m) : m[i][2][1] # 0

\* v / max_score
Divide(v, max_score) == Ratio(v[1] * max_score[2], v[2] * max_score[1])

\* variant: scores divided by their total instead of their maximum
RECURSIVE total_from(_, _)
total_from(vs, i) == IF i > Len(vs) THEN 0 ELSE vs[i][1] + total_from(vs, i + 1)
normalize_by_total(scores) ==
  LET total == IF any_value(scores) THEN total_from(Values(scores), 1) ELSE 1
  IN  [i \in 1..Len(scores) |-> <<scores[i][1], Ratio(scores[i][2][1], total)>>]

\* lines 73-76
normalize(scores) ==
  LET max_score == IF any_value(scores) THEN max_value(scores) ELSE One
  IN  IF Less(Zero, max_score)
      THEN [i \in 1..Len(scores) |-> <<scores[i][1], Divide(scores[i][2], max_score)>>]
      ELSE scores

\* score == 0
IsZero(v) == IsNumber(v) /\ v[1] = 0
all_zero(m) == \A i \in 1..Len(m) : IsZero(m[i][2])

\* variant: the baseline stored under a key of its own
apply_baseline_as_calm(scores) ==
  IF all_zero(scores) THEN Put(scores, "calm", Baseline) ELSE scores

\* lines 78-80
apply_baseline(scores) ==
  IF all_zero(scores) THEN Put(scores, "happy", Baseline) ELSE scores

\* the local scores after the counting loop (line 71), or at the early return
raw_scores(text) ==
  IF total_words(text) = 0
  THEN initial_scores
  ELSE Only({count_keywords(text_lower) : text_lower \in {lower(text)}})

\* variant: without the early return for a text of zero words
keyword_based_emotion_detection_no_return(text) ==
  Only({apply_baseline(normalized) :
          normalized \in {normalize(counted) :
            counted \in {count_keywords(text_lower) :
              text_lower \in {lower(text)}}}})

\* text_lower = text.lower(); count; normalize; baseline
keyword_based_emotion_detection(text) ==
  IF total_words(text) = 0
  THEN initial_scores
  ELSE Only({apply_baseline(normalized) :
               normalized \in {normalize(counted) :
                 counted \in {count_keywords(text_lower) :
                   text_lower \in {lower(text)}}}})

(***************************************************************************)
(* The text2emotion wrapper.  te.get_emotion is outside the repository:    *)
(* one call either raises or returns a dict over some of the library's     *)
(* keys.                                                                   *)
(***************************************************************************)
emotion_mapping ==
  << <<"Happy", "happy">>, <<"Angry", "angry">>, <<"Sad", "sad">>,
     <<"Surprise", "surprise">>, <<"Fear", "fear">> >>
text2emotion_order == Values(emotion_mapping)

\* emotions.get(original, 0.0)
dict_get(d, k, default) == IF k \in DOMAIN d THEN d[k] ELSE default

\* te.get_emotion(text) raises: the library fails, or the name te is unbound
\* because the import at startup failed
te_raises(te) == ~USE_TEXT2EMOTION \/ te.raises

\* variant: the except branch returns zeros instead of the keyword scores
analyze_emotion_text2emotion_zeros(text, te) ==
  IF te_raises(te)
  THEN initial_scores
  ELSE [i \in 1..Len(emotion_mapping) |->
          <<emotion_mapping[i][2], dict_get(te.result, emotion_mapping[i][1], Zero)>>]

analyze_emotion_text2emotion(text, te) ==
  IF te_raises(te)
  THEN keyword_based_emotion_detection(text)
  ELSE [i \in 1..Len(emotion_mapping) |->
          <<emotion_mapping[i][2], dict_get(te.result, emotion_mapping[i][1], Zero)>>]

(***************************************************************************)
(* get_dominant_emotion                                                    *)
(***************************************************************************)
\* max(emotions.items(), key=lambda x: x[1]): the first item with the
\* greatest value
\* variant: a later item replaces an equal earlier one
RECURSIVE max_item_from_last(_, _, _)
max_item_from_last(m, i, best) ==
  IF i > Len(m) THEN best
  ELSE max_item_from_last(m, i + 1, IF Less(m[i][2], best[2]) THEN best ELSE m[i])

RECURSIVE max_item_from(_, _, _)
max_item_from(m, i, best) ==
  IF i > Len(m) THEN best
  ELSE max_item_from(m, i + 1, IF Less(best[2], m[i][2]) THEN m[i] ELSE best)
max_item(m) == max_item_from(m, 2, m[1])

NoDominant == [exc |-> "", label |-> "", confidence |-> Zero]
Dominant(label, confidence) == [exc |-> "", label |-> label, confidence |-> confidence]

\* variant: the threshold test as <= instead of <
get_dominant_emotion_inclusive(m) ==
  IF m = <<>> \/ all_zero(m)
  THEN Dominant("neutral", Zero)
  ELSE IF \E i \in 1..Len(m) : ~IsNumber(m[i][2])
       THEN [exc |-> "TypeError", label |-> "", confidence |-> Zero]
       ELSE LET max_emotion == max_item(m)
            IN  IF LessEq(max_emotion[2], CalmThreshold)
                THEN Dominant("calm", max_emotion[2])
                ELSE Dominant(max_emotion[1], max_emotion[2])

get_dominant_emotion(m) ==
  IF m = <<>> \/ all_zero(m)
  THEN Dominant("neutral", Zero)
  ELSE IF \E i \in 1..Len(m) : ~IsNumber(m[i][2])
       \* ordering None against a float raises
       THEN [exc |-> "TypeError", label |-> "", confidence |-> Zero]
       ELSE LET max_emotion == max_item(m)
            IN  IF Less(max_emotion[2], CalmThreshold)
                THEN Dominant("calm", max_emotion[2])
                ELSE Dominant(max_emotion[1], max_emotion[2])

(***************************************************************************)
(* The /analyze handler                                                    *)
(***************************************************************************)
MaxTextLen == 1000

\* round(v, 3): to the nearest thousandth, ties to even
round3(v) ==
  LET n == 1000 * v[1]
      q == n \div v[2]
      r == n % v[2]
      up == 2 * r > v[2] \/ (2 * r = v[2] /\ q % 2 = 1)
  IN  Ratio(IF up THEN q + 1 ELSE q, 1000)

NoResponse ==
  [status |-> 0, detail |-> "", emotion |-> "", confidence |-> Zero, all_emotions |-> <<>>]
HTTPException(status, detail) ==
  [status |-> status, detail |-> detail, emotion |-> "", confidence |-> Zero,
   all_emotions |-> <<>>]
EmotionResponse(emotion, confidence, all_emotions) ==
  [status |-> 200, detail |-> "", emotion |-> emotion, confidence |-> confidence,
   all_emotions |-> all_emotions]

\* the scorers one analysis invokes
scorers_of(te) ==
  IF USE_TEXT2EMOTION
  THEN IF te_raises(te)
       THEN {"analyze_emotion_text2emotion", "keyword_based_emotion_detection"}
       ELSE {"analyze_emotion_text2emotion"}
  ELSE {"keyword_based_emotion_detection"}

\* lines 161-164
score_request(text, te) ==
  IF USE_TEXT2EMOTION
  THEN analyze_emotion_text2emotion(text, te)
  ELSE keyword_based_emotion_detection(text)

\* lines 166-173: select, round and answer; any exception becomes a 500
respond(scores) ==
  LET selected == get_dominant_emotion(scores)
  IN  [scored |-> TRUE, emotions |-> scores, dominant |-> selected,
       response |->
         IF selected.exc # ""
         THEN HTTPException(500, "Internal server error during emotion analysis")
         ELSE EmotionResponse(selected.label, round3(selected.confidence),
                [i \in 1..Len(scores) |-> <<scores[i][1], round3(scores[i][2])>>])]

\* variant: without the except HTTPException clause, the generic handler
\* turns the validation errors into 500
analyze_text_generic_except(text, te) ==
  IF text = <<>> \/ Len(text) > MaxTextLen
  THEN [scored |-> FALSE, emotions |-> <<>>, dominant |-> NoDominant,
        response |-> HTTPException(500, "Internal server error during emotion analysis")]
  ELSE Only({respond(scores) : scores \in {score_request(text, te)}})

\* lines 154-173, on the stripped text
analyze_text(text, te) ==
  IF text = <<>>
  THEN [scored |-> FALSE, emotions |-> <<>>, dominant |-> NoDominant,
        response |-> HTTPException(400, "Text input cannot be empty")]
  ELSE IF Len(text) > MaxTextLen
  THEN [scored |-> FALSE, emotions |-> <<>>, dominant |-> NoDominant,
        response |-> HTTPException(400, "Text too long (max 1000 characters)")]
  ELSE Only({respond(scores) : scores \in {score_request(text, te)}})

\* the handler's outcome: what it scored, what it selected, what it answers
analyze_emotion(input_text, te) ==
  Only({analyze_text(text, te) : text \in {strip(input_text)}})

(***************************************************************************)
(* Inputs                                                                  *)
(***************************************************************************)
F_space == <<" ">>
F_madrid == <<"m", "a", "d", "r", "i", "d">>
F_un == <<"u", "n">>
F_happy == <<"h", "a", "p", "p", "y">>
F_HAPPY == <<"H", "A", "P", "P", "Y">>
F_Happy == <<"H", "a", "p", "p", "y">>
F_sad_bang == <<"s", "a", "d", "!">>
F_mad_tab == <<"m", "a", "d", "\t">>
F_wow_us == <<"w", "o", "w", "_">>
Fragments ==
  {F_space, F_madrid, F_un, F_happy, F_HAPPY, F_Happy, F_sad_bang, F_mad_tab,
   F_wow_us}

\* the texts made of at most n fragments
RECURSIVE TextsUpTo(_)
TextsUpTo(n) ==
  IF n = 0 THEN {<<>>}
  ELSE LET shorter == TextsUpTo(n - 1)
       IN  shorter \cup {t \o f : t \in shorter, f \in Fragments}

Texts == TextsUpTo(MaxFrags)
TeTexts == TextsUpTo(MaxTeFrags)

Filler(n) == [i \in 1..n |-> "x"]
LongTexts ==
  {Filler(MaxTextLen), Filler(MaxTextLen + 1),
   F_space \o Filler(MaxTextLen) \o F_space,
   F_mad_tab \o Filler(MaxTextLen - 4),
   F_mad_tab \o Filler(MaxTextLen - 3)}
RequestTexts == TextsUpTo(MaxRequestFrags) \cup LongTexts

\* what one call of te.get_emotion does
LibraryKeys == {"Happy", "Angry", "Surprise", "Sad", "Fear"}
TeValues == {Zero, Ratio(1, 2), NoneValue}
TeRaise == [raises |-> TRUE, result |-> <<>>]
TeOutcomes ==
  {TeRaise} \cup
  {[raises |-> FALSE, result |-> d] :
     d \in UNION {[S -> TeValues] : S \in SUBSET LibraryKeys}}

\* the score maps handed to get_dominant_emotion directly
ArgValues == {Zero, Ratio(1, 20), Ratio(1, 10), Ratio(1, 2), One}
ScoreMaps ==
  {<<>>} \cup
  {[i \in 1..Len(order) |-> <<order[i], f[i]>>] :
     order \in {emotion_order, text2emotion_order},
     f \in [1..Len(emotion_order) -> ArgValues]}

Call(fn, text, te, m) == [fn |-> fn, text |-> text, te |-> te, emotions |-> m]

\* the library is called only when the import at startup succeeded
OutcomesFor(available) == IF available THEN TeOutcomes ELSE {TeRaise}

Init ==
  /\ USE_TEXT2EMOTION \in BOOLEAN
  /\ \/ \E t \in Texts :
          call = Call("keyword_based_emotion_detection", t, TeRaise, <<>>)
     \/ \E m \in ScoreMaps :
          call = Call("get_dominant_emotion", <<>>, TeRaise, m)
     \/ \E fn \in {"analyze_emotion_text2emotion", "analyze_emotion"} :
          \E t \in TeTexts, te \in OutcomesFor(USE_TEXT2EMOTION) :
             call = Call(fn, t, te, <<>>)
     \/ \E t \in RequestTexts :
          call = Call("analyze_emotion", t, TeRaise, <<>>)
  /\ pc = "start"
  /\ raw = <<>>
  /\ emotions = <<>>
  /\ dominant = NoDominant
  /\ response = NoResponse
  /\ invoked = {}

(***************************************************************************)
(* Operations                                                              *)
(***************************************************************************)
\* a direct call of keyword_based_emotion_detection(text)
KeywordScorerCall ==
  /\ pc = "start"
  /\ call.fn = "keyword_based_emotion_detection"
  /\ raw' = raw_scores(call.text)
  /\ emotions' = keyword_based_emotion_detection(call.text)
  /\ invoked' = {"keyword_based_emotion_detection"}
  /\ pc' = "scored"
  /\ UNCHANGED <<USE_TEXT2EMOTION, call, dominant, response>>

\* a direct call of analyze_emotion_text2emotion(text)
Text2EmotionCall ==
  /\ pc = "start"
  /\ call.fn = "analyze_emotion_text2emotion"
  /\ raw' = IF te_raises(call.te) THEN raw_scores(call.text) ELSE <<>>
  /\ emotions' = analyze_emotion_text2emotion(call.text, call.te)
  /\ invoked' = IF te_raises(call.te)
                THEN {"analyze_emotion_text2emotion", "keyword_based_emotion_detection"}
                ELSE {"analyze_emotion_text2emotion"}
  /\ pc' = "scored"
  /\ UNCHANGED <<USE_TEXT2EMOTION, call, dominant, response>>

\* get_dominant_emotion applied to the map a scorer returned
DominantOfScores ==
  /\ pc = "scored"
  /\ dominant' = get_dominant_emotion(emotions)
  /\ pc' = "done"
  /\ UNCHANGED <<USE_TEXT2EMOTION, call, raw, emotions, response, invoked>>

\* a direct call of get_dominant_emotion(emotions)
DominantCall ==
  /\ pc = "start"
  /\ call.fn = "get_dominant_emotion"
  /\ emotions' = call.emotions
  /\ dominant' = get_dominant_emotion(call.emotions)
  /\ pc' = "done"
  /\ UNCHANGED <<USE_TEXT2EMOTION, call, raw, response, invoked>>

\* one POST /analyze
AnalyzeRequest ==
  /\ pc = "start"
  /\ call.fn = "analyze_emotion"
  /\ \E out \in {analyze_emotion(call.text, call.te)} :
       /\ emotions' = out.emotions
       /\ dominant' = out.dominant
       /\ response' = out.response
       /\ invoked' = IF out.scored THEN scorers_of(call.te) ELSE {}
       /\ raw' = IF out.scored /\ "keyword_based_emotion_detection" \in scorers_of(call.te)
                 THEN Only({raw_scores(text) : text \in {strip(call.text)}})
                 ELSE <<>>
  /\ pc' = "done"
  /\ UNCHANGED <<USE_TEXT2EMOTION, call>>

Next ==
  \/ KeywordScorerCall
  \/ Text2EmotionCall
  \/ DominantOfScores
  \/ DominantCall
  \/ AnalyzeRequest

Spec == Init /\ [][Next]_vars

(***************************************************************************)
(* Vocabulary of the properties                                            *)
(***************************************************************************)
\* the text the scorers were given
ScoredText == IF call.fn = "analyze_emotion" THEN strip(call.text) ELSE call.text

\* a scorer has returned, and the map in emotions is the keyword scorer's
KeywordProduced ==
  /\ pc \in {"scored", "done"}
  /\ "keyword_based_emotion_detection" \in invoked

\* the map in emotions was built from the library's result
LibraryProduced ==
  /\ pc \in {"scored", "done"}
  /\ invoked = {"analyze_emotion_text2emotion"}

\* get_dominant_emotion has been applied to the map in emotions
DominantApplied ==
  /\ pc = "done"
  /\ call.fn = "analyze_emotion" => invoked # {}

HasWords(t) == \E i \in 1..Len(t) : t[i] \notin Whitespace

\* the text character a is the keyword character b, ignoring case
SameLetter(a, b) ==
  \/ a = b
  \/ a \in UpperSet /\ \E k \in 1..26 : a = UpperAlpha[k] /\ b = LowerAlpha[k]

\* keyword occurs in t at index i as a whole word
WholeWordAt(keyword, t, i) ==
  /\ \A j \in 1..Len(keyword) : SameLetter(t[i + j - 1], keyword[j])
  /\ i = 1 \/ ~IsWordChar(t[i - 1])
  /\ i + Len(keyword) - 1 = Len(t) \/ ~IsWordChar(t[i + Len(keyword)])

WholeWordCount(keyword, t) ==
  Cardinality({i \in 1..(Len(t) - Len(keyword) + 1) : WholeWordAt(keyword, t, i)})

RECURSIVE CategoryCount(_, _, _)
CategoryCount(keywords, t, i) ==
  IF i > Len(keywords) THEN 0
  ELSE WholeWordCount(keywords[i], t) + CategoryCount(keywords, t, i + 1)

\* the whole-word count of category number c of the lexicon
ExpectedCount(c, t) == CategoryCount(emotion_keywords[c][2], t, 1)

NoKeywordMatches(t) == \A c \in 1..Len(emotion_keywords) : ExpectedCount(c, t) = 0

FiveKeys == {"happy", "sad", "angry", "fear", "surprise"}
LexiconOrder == <<"happy", "sad", "angry", "fear", "surprise">>

\* the map with happy at v and every other category at 0.0
OnlyHappy(m, v) ==
  /\ KeySet(m) = FiveKeys
  /\ \A i \in 1..Len(m) : m[i][2] = IF m[i][1] = "happy" THEN v ELSE Zero

\* v is the greatest value of the non-empty map m
IsMaximum(m, v) ==
  /\ \E i \in 1..Len(m) : m[i][2] = v
  /\ \A i \in 1..Len(m) : LessEq(m[i][2], v)

\* index of key k in the order
IndexIn(order, k) == CHOOSE i \in 1..Len(order) : order[i] = k

\* k holds the maximum of m and no holder of the maximum precedes it in order
FirstMaximumIn(order, m, k) ==
  /\ HasKey(m, k)
  /\ IsMaximum(m, Get(m, k))
  /\ \A i \in 1..Len(m) :
       m[i][2] = Get(m, k) => IndexIn(order, k) <= IndexIn(order, m[i][1])

(***************************************************************************)
(* Properties                                                              *)
(***************************************************************************)

\* C1: for a text with words in which no keyword matches as a whole word, the
\* keyword scorer returns happy = 0.1 and 0.0 elsewhere, and
\* get_dominant_emotion of that map returns ("calm", 0.1).
C1_NoSignalSelectsCalm ==
  (KeywordProduced /\ pc = "done") =>
    \A t \in {ScoredText} :
      (HasWords(t) /\ NoKeywordMatches(t)) =>
        /\ OnlyHappy(emotions, Ratio(1, 10))
        /\ dominant = Dominant("calm", Ratio(1, 10))

\* C2: every map the keyword scorer returns has exactly the five categories
\* as keys, each once, and every value in [0, 1].
C2_FiveKeysInUnitInterval ==
  KeywordProduced =>
    /\ Len(emotions) = 5
    /\ KeySet(emotions) = FiveKeys
    /\ \A i \in 1..Len(emotions) :
         /\ IsNumber(emotions[i][2])
         /\ LessEq(Zero, emotions[i][2])
         /\ LessEq(emotions[i][2], One)

C2_Witness ==
  /\ KeywordProduced
  /\ call.fn = "keyword_based_emotion_detection"
  /\ call.text = F_mad_tab \o F_sad_bang
  /\ Get(emotions, "angry") = One
  /\ Get(emotions, "sad") = One
  /\ Get(emotions, "happy") = Zero

\* C3: get_dominant_emotion returns "calm" with the maximum as confidence when
\* the maximum of the map is strictly between 0 and 0.1, and the name and the
\* score of a category holding the maximum when the maximum is at least 0.1.
C3_CalmBelowThreshold ==
  (DominantApplied /\ emotions # <<>> /\ dominant.exc = "") =>
    \A i \in 1..Len(emotions) :
      IsMaximum(emotions, emotions[i][2]) =>
        /\ (Less(Zero, emotions[i][2]) /\ Less(emotions[i][2], Ratio(1, 10))) =>
             dominant = Dominant("calm", emotions[i][2])
        /\ LessEq(Ratio(1, 10), emotions[i][2]) =>
             /\ HasKey(emotions, dominant.label)
             /\ Get(emotions, dominant.label) = emotions[i][2]
             /\ dominant.confidence = emotions[i][2]

C3_Witness ==
  /\ pc = "done"
  /\ call.fn = "get_dominant_emotion"
  /\ IsMaximum(emotions, Ratio(1, 20))
  /\ Get(emotions, "fear") = Ratio(1, 20)
  /\ Get(emotions, "happy") = Zero
  /\ dominant = Dominant("calm", Ratio(1, 20))

\* C4: for a text without words the keyword scorer returns every category at
\* 0.0 (no normalization, no baseline), and get_dominant_emotion returns
\* ("neutral", 0.0) for the empty map and for a map of zeros.
C4_ZeroWordsNeutral ==
  /\ KeywordProduced =>
       \A t \in {ScoredText} :
         ~HasWords(t) =>
           /\ KeySet(emotions) = FiveKeys
           /\ \A i \in 1..Len(emotions) : emotions[i][2] = Zero
  /\ (DominantApplied /\ \A i \in 1..Len(emotions) : emotions[i][2] = Zero) =>
       dominant = Dominant("neutral", Zero)

C4_Witness ==
  /\ pc = "done"
  /\ call.fn = "keyword_based_emotion_detection"
  /\ call.text = F_space \o F_space
  /\ Len(emotions) = 5
  /\ dominant = Dominant("neutral", Zero)

\* C5: when a keyword matches, every category scores its raw count divided by
\* the greatest raw count: the holders of the maximum score 1.0, half the
\* maximum scores 0.5, no match scores 0.0, and the baseline is not applied.
C5_NormalizedByMaximum ==
  (KeywordProduced /\ \E i \in 1..Len(raw) : raw[i][2] # Zero) =>
    /\ Keys(emotions) = Keys(raw)
    /\ \A i \in 1..Len(raw) :
         IsMaximum(raw, raw[i][2]) =>
           \A c \in 1..Len(raw) :
             /\ emotions[c][2][1] * raw[i][2][1] = raw[c][2][1] * emotions[c][2][2]
             /\ raw[c][2] = raw[i][2] => emotions[c][2] = One
             /\ 2 * raw[c][2][1] = raw[i][2][1] => emotions[c][2] = Ratio(1, 2)
             /\ raw[c][2] = Zero => emotions[c][2] = Zero

C5_Witness ==
  /\ KeywordProduced
  /\ call.fn = "keyword_based_emotion_detection"
  /\ call.text = F_mad_tab \o F_mad_tab \o F_sad_bang
  /\ Get(raw, "angry") = Ratio(2, 1)
  /\ Get(raw, "sad") = One
  /\ Get(emotions, "angry") = One
  /\ Get(emotions, "sad") = Ratio(1, 2)
  /\ Get(emotions, "happy") = Zero

\* C6: the raw score of a category is the number of case-insensitive
\* whole-word occurrences of its keywords in the text, an occurrence being
\* bounded on both sides by a non-word character or a string edge.
C6_RawScoreIsWholeWordCount ==
  KeywordProduced =>
    \A t \in {ScoredText} :
      \A c \in 1..Len(emotion_keywords) :
        /\ raw[c][1] = emotion_keywords[c][1]
        /\ raw[c][2] = Ratio(ExpectedCount(c, t), 1)

C6_Witness ==
  /\ KeywordProduced
  /\ call.fn = "keyword_based_emotion_detection"
  /\ call.text = F_mad_tab \o F_madrid
  /\ Get(raw, "angry") = One

\* C7: when the library raises during an analysis, analyze_emotion_text2emotion
\* returns the map of the keyword scorer for the same text and the request is
\* answered, not failed; when the import at startup failed, every analysis
\* uses the keyword scorer.
C7_FallbackToKeywordScorer ==
  /\ (pc \in {"scored", "done"} /\ call.fn = "analyze_emotion_text2emotion"
        /\ (call.te.raises \/ ~USE_TEXT2EMOTION)) =>
       emotions = keyword_based_emotion_detection(call.text)
  /\ (pc = "done" /\ call.fn = "analyze_emotion" /\ invoked # {}
        /\ (call.te.raises \/ ~USE_TEXT2EMOTION)) =>
       \A t \in {ScoredText} :
         /\ "keyword_based_emotion_detection" \in invoked
         /\ emotions = keyword_based_emotion_detection(t)
         /\ response.status = 200
         /\ Keys(response.all_emotions) = Keys(emotions)

C7_Witness ==
  /\ USE_TEXT2EMOTION
  /\ call.fn = "analyze_emotion_text2emotion"
  /\ call.te.raises
  /\ call.text = F_mad_tab
  /\ pc = "scored"
  /\ Get(emotions, "angry") = One
  /\ Keys(emotions) = LexiconOrder

\* C8 as stated: among the categories sharing the maximum, get_dominant_emotion
\* selects the first in lexicon declaration order, for every map a scorer
\* produced in an analysis.
C8_TieByLexiconOrder ==
  (DominantApplied /\ invoked # {} /\ dominant.exc = ""
     /\ dominant.label \notin {"neutral", "calm"}) =>
    FirstMaximumIn(LexiconOrder, emotions, dominant.label)

\* C8 amended: among the categories sharing the maximum, get_dominant_emotion
\* selects the first in the order of the map handed to it, which is lexicon
\* declaration order for a map of the keyword scorer and the order of
\* emotion_mapping (happy, angry, sad, surprise, fear) for a map built from
\* the library's result.
C8_TieByMapOrder ==
  /\ (DominantApplied /\ emotions # <<>> /\ dominant.exc = ""
        /\ dominant.label \notin {"neutral", "calm"}) =>
       FirstMaximumIn(Keys(emotions), emotions, dominant.label)
  /\ KeywordProduced => Keys(emotions) = LexiconOrder
  /\ LibraryProduced =>
       Keys(emotions) = <<"happy", "angry", "sad", "surprise", "fear">>

C8_Witness ==
  /\ pc = "done"
  /\ LibraryProduced
  /\ Get(emotions, "sad") = Ratio(1, 2)
  /\ Get(emotions, "angry") = Ratio(1, 2)
  /\ IsMaximum(emotions, Ratio(1, 2))
  /\ dominant = Dominant("angry", Ratio(1, 2))

\* the text has a non-whitespace character, and first and last are the ends
\* of what trimming keeps
TrimmedLen(t) ==
  LET kept == {i \in 1..Len(t) : t[i] \notin Whitespace}
  IN  IF kept = {} THEN 0
      ELSE (CHOOSE i \in kept : \A j \in kept : j <= i)
           - (CHOOSE i \in kept : \A j \in kept : i <= j) + 1

\* C9: /analyze answers 400 without invoking a scorer when the trimmed text is
\* empty or longer than 1000 characters; a validation error is never answered
\* as 500, and 500 is answered only when scoring or selection raised.
C9_ValidationErrorsAre400 ==
  (pc = "done" /\ call.fn = "analyze_emotion") =>
    \A n \in {TrimmedLen(call.text)} :
      /\ (n = 0 \/ n > 1000) => (response.status = 400 /\ invoked = {})
      /\ (n > 0 /\ n <= 1000) => (response.status \in {200, 500} /\ invoked # {})
      /\ response.status = 500 => (invoked # {} /\ dominant.exc # "")

C9_Witness ==
  /\ pc = "done"
  /\ call.fn = "analyze_emotion"
  /\ call.text = F_mad_tab \o Filler(MaxTextLen - 3)
  /\ response.status = 400
  /\ invoked = {}

====
